---- MODULE Spec2Model ----
(***************************************************************************)
(* The particle filter node of my_localizer/scripts/pf.py as a state       *)
(* machine: the ParticleFilter object, its three callbacks (scan_received, *)
(* update_initial_pose, the main loop's broadcast_last_transform) and the  *)
(* filter steps they call.                                                 *)
(*                                                                         *)
(* Numbers.  Python floats are modelled in fixed point:                    *)
(*   lengths      in centimetres            (d_thresh = 0.1 m  = 10)       *)
(*   angles       in units of pi/240        (a_thresh = pi/12  = 20)       *)
(*   cos and sin  in hundredths, tabulated every 15 degrees                *)
(*   weights      as exact fractions <<numerator, denominator>>            *)
(*   distances of the occupancy field in half metres, so that distance^5   *)
(*   is an integer number of 1/32 m^5                                      *)
(* random_sample() is a fraction <<k, n>> of [0, 1) chosen by the          *)
(* environment.                                                            *)
(***************************************************************************)
EXTENDS Integers, Sequences, FiniteSets

(***************************************************************************)
(* Bounds of the model                                                     *)
(***************************************************************************)
\* n_particles of the model (500 in the source, line 111)
NParticles == 2
\* update cycles explored before the model stops running further ones
MaxUpdates == 2
\* scans and initial poses delivered to the interleaved callbacks (SpecConc)
MaxScans == 2
MaxOverrides == 1

(***************************************************************************)
(* Arithmetic                                                              *)
(***************************************************************************)
Abs(a) == IF a < 0 THEN -a ELSE a

\* math.pi in angle units
Pi == 240

RECURSIVE Gcd(_, _)
Gcd(a, b) == IF b = 0 THEN a ELSE Gcd(b, a % b)

\* a/b rounded to the nearest integer (b > 0)
RoundDiv(a, b) == (2 * a + b) \div (2 * b)

RECURSIVE SqrtSearch(_, _, _)
SqrtSearch(n, lo, hi) ==
    IF lo >= hi THEN lo
    ELSE LET mid == (lo + hi + 1) \div 2
         IN IF mid * mid <= n THEN SqrtSearch(n, mid, hi)
                              ELSE SqrtSearch(n, lo, mid - 1)

\* np.sqrt, rounded to the nearest integer
Sqrt(n) == (SqrtSearch(4 * n, 0, IF n < 20000 THEN 2 * n + 1 ELSE 40000) + 1) \div 2

\* np.cos / np.sin of multiples of 15 degrees, in hundredths
CosTable == <<100, 97, 87, 71, 50, 26, 0, -26, -50, -71, -87, -97,
              -100, -97, -87, -71, -50, -26, 0, 26, 50, 71, 87, 97>>

\* the 15-degree sector nearest to an angle, 0..23
Sector(theta) == RoundDiv(theta, 20) % 24

Cos(theta) == CosTable[Sector(theta) + 1]

Sin(theta) == CosTable[((Sector(theta) + 18) % 24) + 1]

\* tan of 7.5, 22.5, ..., 82.5 degrees, in ten-thousandths: the bounds
\* between the tabulated directions of the first quadrant
TanBounds == <<1317, 4142, 7673, 13032, 24142, 75958>>

\* np.arctan2(y, x), in [-pi, pi], rounded to a multiple of 15 degrees;
\* arctan2(0, 0) = 0
Atan2(y, x) ==
    LET k == Cardinality({i \in 1 .. Len(TanBounds) :
                              Abs(y) * 10000 > TanBounds[i] * Abs(x)})
    IN 20 * (IF x >= 0 THEN (IF y >= 0 THEN k ELSE -k)
                       ELSE (IF y >= 0 THEN 12 - k ELSE k - 12))

(***************************************************************************)
(* Exact fractions for the weights                                         *)
(***************************************************************************)
Frac(n, d) == LET g == Gcd(Abs(n), Abs(d)) IN <<n \div g, d \div g>>

FAdd(a, b) == Frac(a[1] * b[2] + b[1] * a[2], a[2] * b[2])

FDiv(a, b) == Frac(a[1] * b[2], a[2] * b[1])

FLeq(a, b) == a[1] * b[2] <= b[1] * a[2]

FZero == <<0, 1>>

FOne == <<1, 1>>

RECURSIVE FSum(_)
FSum(s) == IF s = <<>> THEN FZero ELSE FAdd(Head(s), FSum(Tail(s)))

RECURSIVE Sum(_)
Sum(s) == IF s = <<>> THEN 0 ELSE Head(s) + Sum(Tail(s))

RECURSIVE Lcm(_)
Lcm(s) == IF s = <<>> THEN 1
          ELSE LET l == Lcm(Tail(s)) IN (Head(s) * l) \div Gcd(Head(s), l)

(***************************************************************************)
(* Parameters of the filter                                                *)
(***************************************************************************)
\* self.d_thresh = 0.1 (metres), in centimetres
d_thresh == 10

\* self.a_thresh = math.pi/12
a_thresh == Pi \div 12

\* lin_noise = 1 (metre), in centimetres
lin_noise == 100

\* ang_noise = math.pi/2.0
ang_noise == Pi \div 2

\* odom_noise = .3, in twentieths
odom_noise == 6

\* the exponent of err**5
err_power == 5

\* range(0, 360, 10): the bearings of a scan that are used.  The model's
\* scan has one reading every 90 degrees (the source's every 10 degrees).
Bearings == <<0, 90, 180, 270>>

\* np.radians(theta), in angle units
Radians(deg) == (deg * Pi) \div 180

None == <<>>

(***************************************************************************)
(* The map: OccupancyField.get_closest_obstacle_distance.  A square room   *)
(* whose walls are 1 m from the origin, mapped up to 2 m from the origin.  *)
(* The distance is in half metres; NaN outside the mapped region.          *)
(***************************************************************************)
NaN == -1

MapExtent == 200

WallAt == 100

Max(a, b) == IF a > b THEN a ELSE b

get_closest_obstacle_distance(x, y) ==
    IF Abs(x) > MapExtent \/ Abs(y) > MapExtent THEN NaN
    ELSE RoundDiv(Abs(Max(Abs(x), Abs(y)) - WallAt), 50)

RECURSIVE Pow(_, _)
Pow(b, k) == IF k = 0 THEN 1 ELSE b * Pow(b, k - 1)

(***************************************************************************)
(* class Particle                                                          *)
(***************************************************************************)
\* Particle(x, y, theta, w=1.0)
Particle(x, y, theta, w) == [x |-> x, y |-> y, theta |-> theta, w |-> w]

\* an angle wrapped to (-pi, pi]: what a quaternion keeps of a yaw
WrapAngle(theta) ==
    LET t == theta % (2 * Pi) IN IF t > Pi THEN t - 2 * Pi ELSE t

\* Particle.as_pose: position and the orientation quaternion of the yaw
as_pose(p) == <<p.x, p.y, WrapAngle(p.theta)>>

\* random_sample() * scale, for a draw u = <<k, n>> of [0, 1)
Scaled(u, scale) == RoundDiv(u[1] * scale, u[2])

\* random_sample()*odom_noise + (1 - odom_noise/2.0), in twentieths
NoiseFactor(u) == Scaled(u, odom_noise) + (20 - odom_noise \div 2)

(***************************************************************************)
(* An execution of a callback is a record e:                               *)
(*   heap                   the Particle objects, by reference (1, 2, ...) *)
(*   particle_cloud         self.particle_cloud: a list of references      *)
(*   current_odom_xy_theta  <<x, y, theta>>, or <<>> (the empty list)      *)
(*   odom_pose, robot_pose, transform   <<x, y, theta>>, None when unset;  *)
(*                          transform is (self.translation, self.rotation) *)
(*   exc                    the exception that ended the callback, "none"  *)
(*   trace                  the filter steps run so far, in order          *)
(*   published, sent        the PoseArrays published, the transforms sent  *)
(*   laser_log, pose_in, motion_in, motion_out, motion_draws,              *)
(*   resample_in, resample_new                                             *)
(*                          what the steps of an update cycle saw and made *)
(*   norm_log               for each run of normalize_particles, the sum   *)
(*                          it computed and the weights it left            *)
(***************************************************************************)
NoExc == "none"

\* F(v), with v evaluated once
Eval(F(_), v) == CHOOSE r \in {F(x) : x \in {v}} : TRUE

\* the steps of a callback in sequence: G applied to the result of the step
\* before it, unless that step raised
Then(e, G(_)) == Eval(LAMBDA x : IF x.exc # NoExc THEN x ELSE G(x), e)

Values(heap, cloud) == [i \in 1 .. Len(cloud) |-> heap[cloud[i]]]

Step(e, name) == [e EXCEPT !.trace = Append(@, name)]

\* for particle in self.particle_cloud: particle.w /= weights_sum
RECURSIVE DivideWeights(_, _, _, _)
DivideWeights(heap, cloud, i, weights_sum) ==
    IF i > Len(cloud) THEN heap
    ELSE DivideWeights([heap EXCEPT ![cloud[i]].w = FDiv(@, weights_sum)],
                       cloud, i + 1, weights_sum)

normalize_particles(e) ==
    IF e.exc # NoExc THEN e
    ELSE LET cloud == e.particle_cloud
             weights_sum == FSum([i \in 1 .. Len(cloud) |-> e.heap[cloud[i]].w])
             divided == DivideWeights(e.heap, cloud, 1, weights_sum)
         IN IF cloud # <<>> /\ weights_sum[1] = 0
            THEN [e EXCEPT !.exc = "ZeroDivisionError",
                           !.norm_log = Append(@, [weights_sum |-> weights_sum,
                                                   after |-> <<>>])]
            ELSE Step([e EXCEPT !.heap = divided,
                                !.norm_log =
                                    Append(@, [weights_sum |-> weights_sum,
                                               after |-> [i \in 1 .. Len(cloud) |->
                                                             divided[cloud[i]].w]])],
                      "normalize")

\* the weighted mean pose of a list of particles whose weights are normalized
MeanPose(ps) ==
    LET n == Len(ps)
        D == Lcm([i \in 1 .. n |-> ps[i].w[2]])
        k(i) == ps[i].w[1] * (D \div ps[i].w[2])
        distance_vector(i) == Sqrt(ps[i].y * ps[i].y + ps[i].x * ps[i].x)
        mean_x == RoundDiv(Sum([i \in 1 .. n |-> ps[i].x * k(i)]), D)
        mean_y == RoundDiv(Sum([i \in 1 .. n |-> ps[i].y * k(i)]), D)
        theta_x == RoundDiv(Sum([i \in 1 .. n |->
                      RoundDiv(distance_vector(i) * Cos(ps[i].theta), 100) * k(i)]), D)
        theta_y == RoundDiv(Sum([i \in 1 .. n |->
                      RoundDiv(distance_vector(i) * Sin(ps[i].theta), 100) * k(i)]), D)
    IN Particle(mean_x, mean_y, Atan2(theta_y, theta_x), FZero)

\* lines 167-182, after the normalization
EstimatePose(e) ==
    LET ps == Values(e.heap, e.particle_cloud)
    IN Step([e EXCEPT !.robot_pose = as_pose(MeanPose(ps)), !.pose_in = ps], "pose")

update_robot_pose(e) == Then(normalize_particles(e), EstimatePose)

(***************************************************************************)
(* Motion update                                                           *)
(***************************************************************************)
\* lines 215-223 for one particle; n is the four random_sample() draws
MoveParticle(p, delta, old_odom_xy_theta, n) ==
    LET r1 == Atan2(delta[2], delta[1]) - old_odom_xy_theta[3]
        d == Sqrt(delta[1] * delta[1] + delta[2] * delta[2])
        r2 == delta[3] - r1
        theta1 == p.theta + RoundDiv(r1 * NoiseFactor(n[1]), 20)
        x == p.x + RoundDiv(d * Cos(theta1) * NoiseFactor(n[2]), 2000)
        y == p.y + RoundDiv(d * Sin(theta1) * NoiseFactor(n[3]), 2000)
        theta2 == theta1 + RoundDiv(r2 * NoiseFactor(n[4]), 20)
    IN [p EXCEPT !.x = x, !.y = y, !.theta = theta2]

\* for particle in self.particle_cloud: the object of every entry is moved
RECURSIVE MoveAll(_, _, _, _, _, _)
MoveAll(heap, cloud, i, delta, old, draws) ==
    IF i > Len(cloud) THEN heap
    ELSE MoveAll([heap EXCEPT ![cloud[i]] = MoveParticle(@, delta, old, draws[i])],
                 cloud, i + 1, delta, old, draws)

update_particles_with_odom(e, draws) ==
    IF e.exc # NoExc THEN e
    ELSE LET new_odom_xy_theta == e.odom_pose
             old == e.current_odom_xy_theta
         IN IF old # <<>>
            THEN LET delta == <<new_odom_xy_theta[1] - old[1],
                                new_odom_xy_theta[2] - old[2],
                                new_odom_xy_theta[3] - old[3]>>
                 IN Eval(LAMBDA moved :
                           Step([e EXCEPT
                                   !.current_odom_xy_theta = new_odom_xy_theta,
                                   !.heap = moved,
                                   !.motion_in = Values(e.heap, e.particle_cloud),
                                   !.motion_out = Values(moved, e.particle_cloud),
                                   !.motion_draws = draws],
                                "odom"),
                         MoveAll(e.heap, e.particle_cloud, 1, delta, old, draws))
            ELSE Step([e EXCEPT !.current_odom_xy_theta = new_odom_xy_theta], "odom")

(***************************************************************************)
(* Sensor update                                                           *)
(***************************************************************************)
\* the loop over the bearings for one particle: the list error when the loop
\* ends, and whether it ended by the break
RECURSIVE LaserErrors(_, _, _, _)
LaserErrors(p, ranges, i, error) ==
    IF i > Len(Bearings) THEN [error |-> error, nan |-> FALSE]
    ELSE LET theta == Bearings[i]
             rad == Radians(theta)
             err == get_closest_obstacle_distance(
                        p.x + RoundDiv(ranges[theta] * Cos(p.theta + rad), 100),
                        p.y + RoundDiv(ranges[theta] * Sin(p.theta + rad), 100))
         IN IF err = NaN
            THEN [error |-> error, nan |-> TRUE]
            ELSE LaserErrors(p, ranges, i + 1, Append(error, Pow(err, err_power)))

\* a sensor update that keeps the weight assigned before the break
WeightOf_keeps_break(w, r) ==
    IF r.nan THEN FZero
    ELSE IF Sum(r.error) = 0 THEN FOne
    ELSE Frac(Pow(2, err_power), Sum(r.error))

\* lines 255-262: the weight of the particle after its iteration, given how
\* the loop over the bearings ended.  The assignment particle.w = 0 before
\* the break is followed by the if/else on sum(error), which assigns again.
WeightOf(w, r) ==
    LET w_break == IF r.nan THEN FZero ELSE w
    IN IF Sum(r.error) = 0 THEN FOne
       ELSE Frac(Pow(2, err_power), Sum(r.error))

\* the objects of the entries are weighed one after the other; log keeps,
\* for each entry, how its loop ended and the weight it was given
RECURSIVE WeighAll(_, _, _, _, _)
WeighAll(heap, cloud, i, ranges, log) ==
    IF i > Len(cloud) THEN [heap |-> heap, log |-> log]
    ELSE LET p == heap[cloud[i]]
         IN Eval(LAMBDA r :
                   Eval(LAMBDA w :
                          WeighAll([heap EXCEPT ![cloud[i]].w = w], cloud, i + 1, ranges,
                                   Append(log, [nan |-> r.nan, evaluated |-> Len(r.error),
                                                sum |-> Sum(r.error), w |-> w])),
                        WeightOf(p.w, r)),
                 LaserErrors(p, ranges, 1, <<>>))

update_particles_with_laser(e, msg) ==
    IF e.exc # NoExc THEN e
    ELSE Eval(LAMBDA r : Step([e EXCEPT !.heap = r.heap, !.laser_log = r.log], "laser"),
              WeighAll(e.heap, e.particle_cloud, 1, msg.ranges, <<>>))

(***************************************************************************)
(* Resampling                                                              *)
(***************************************************************************)
\* np.add.accumulate(probs)
RECURSIVE Accumulate(_, _)
Accumulate(probs, i) ==
    IF i = 0 THEN <<>>
    ELSE LET before == Accumulate(probs, i - 1)
         IN Append(before, IF i = 1 THEN probs[1] ELSE FAdd(before[i - 1], probs[i]))

\* np.digitize(u, bins): the number of bins that are <= u
Digitize(u, bins) == Cardinality({j \in 1 .. Len(bins) : FLeq(bins[j], u)})

\* choices[i] without the deepcopy: the sample is the chosen object itself
DeepCopy_shared(heap, ref) == [heap |-> heap, ref |-> ref]

\* deepcopy(choices[i]): a new object with the fields of the chosen one.
\* The result is the heap with the copy and the reference to it.
DeepCopy(heap, ref) == [heap |-> Append(heap, heap[ref]), ref |-> Len(heap) + 1]

\* lines 273-280.  draws are the n values of random_sample(n).  The result
\* is the heap, the list samples, and IndexError when an index is len(choices).
RECURSIVE DrawSamples(_, _, _, _, _, _)
DrawSamples(heap, choices, bins, draws, n, i) ==
    IF i > n THEN [heap |-> heap, samples |-> <<>>, exc |-> NoExc]
    ELSE LET ind == Digitize(draws[i], bins)
         IN IF ind >= Len(choices)
            THEN [heap |-> heap, samples |-> <<>>, exc |-> "IndexError"]
            ELSE LET c == DeepCopy(heap, choices[ind + 1])
                     rest == DrawSamples(c.heap, choices, bins, draws, n, i + 1)
                 IN [rest EXCEPT !.samples = <<c.ref>> \o @]

\* a sampler that returns one sample less than it is asked for
draw_random_sample_short(heap, choices, probabilities, n, draws) ==
    DrawSamples(heap, choices, Accumulate(probabilities, Len(probabilities)),
                draws, n - 1, 1)

draw_random_sample(heap, choices, probabilities, n, draws) ==
    DrawSamples(heap, choices, Accumulate(probabilities, Len(probabilities)),
                draws, n, 1)

\* lines 236-244, after the normalization
Resample(e, draws) ==
    LET choices == e.particle_cloud
        probabilities == [i \in 1 .. Len(choices) |-> e.heap[choices[i]].w]
        num_samples == Len(e.particle_cloud)
    IN Eval(LAMBDA r :
              IF r.exc # NoExc THEN [e EXCEPT !.exc = r.exc]
              ELSE Step([e EXCEPT
                           !.heap = r.heap,
                           !.particle_cloud = r.samples,
                           !.resample_in = [refs |-> choices,
                                            values |-> Values(e.heap, choices)],
                           !.resample_new = r.samples],
                        "resample"),
            draw_random_sample(e.heap, choices, probabilities, num_samples, draws))

resample_particles(e, draws) ==
    Then(normalize_particles(e), LAMBDA x : Resample(x, draws))

(***************************************************************************)
(* Initialization                                                          *)
(***************************************************************************)
\* self.particle_cloud = []
ClearCloud(e) == [e EXCEPT !.particle_cloud = <<>>]

\* one iteration of the loop of lines 305-309; u is its three draws
AppendParticle(e, xy_theta, u) ==
    LET x == xy_theta[1] + (Scaled(u[1], lin_noise) - lin_noise \div 2)
        y == xy_theta[2] + (Scaled(u[2], lin_noise) - lin_noise \div 2)
        theta == xy_theta[3] + (Scaled(u[3], ang_noise) - ang_noise \div 2)
    IN [e EXCEPT !.heap = Append(@, Particle(x, y, theta, FOne)),
                 !.particle_cloud = Append(@, Len(e.heap) + 1)]

RECURSIVE AppendParticles(_, _, _, _)
AppendParticles(e, xy_theta, draws, i) ==
    IF i > NParticles THEN e
    ELSE AppendParticles(AppendParticle(e, xy_theta, draws[i]), xy_theta, draws, i + 1)

\* xy_theta is None when the odometry is to be used
initialize_particle_cloud(e, xy_theta, draws) ==
    IF e.exc # NoExc THEN e
    ELSE LET seed == IF xy_theta = None THEN e.odom_pose ELSE xy_theta
         IN Then(Then(Step(AppendParticles(ClearCloud(e), seed, draws, 1), "init"),
                      normalize_particles),
                 update_robot_pose)

(***************************************************************************)
(* Transform correction and outputs                                        *)
(***************************************************************************)
\* the map -> odom transform that maps the odometry pose of the robot to its
\* pose in the map: what lines 390-395 compute with the transform provider
MapToOdom(robot_pose, odom) ==
    LET rot == robot_pose[3] - odom[3]
        tx == robot_pose[1]
              - RoundDiv(Cos(rot) * odom[1] - Sin(rot) * odom[2], 100)
        ty == robot_pose[2]
              - RoundDiv(Sin(rot) * odom[1] + Cos(rot) * odom[2], 100)
    IN <<tx, ty, WrapAngle(rot)>>

\* tf is what the transform provider has for msg.header.stamp: the pose of
\* base_link in odom, or None when waitForTransform times out
fix_map_to_odom_transform(e, tf) ==
    IF e.exc # NoExc THEN e
    ELSE IF tf = None THEN [e EXCEPT !.exc = "tf.Exception"]
    ELSE Step([e EXCEPT !.transform = MapToOdom(e.robot_pose, tf)], "fix")

publish_particles(e) ==
    IF e.exc # NoExc THEN e
    ELSE LET particles_conv == [i \in 1 .. Len(e.particle_cloud) |->
                                   as_pose(e.heap[e.particle_cloud[i]])]
         IN Step([e EXCEPT !.published = Append(@, particles_conv)], "publish")

(***************************************************************************)
(* The callbacks                                                           *)
(***************************************************************************)
\* a gate that also opens at the thresholds themselves
OverThreshold_nonstrict(new_odom_xy_theta, current) ==
    \/ Abs(new_odom_xy_theta[1] - current[1]) >= d_thresh
    \/ Abs(new_odom_xy_theta[2] - current[2]) >= d_thresh
    \/ Abs(new_odom_xy_theta[3] - current[3]) >= a_thresh

\* the condition of the elif of lines 369-371
OverThreshold(new_odom_xy_theta, current) ==
    \/ Abs(new_odom_xy_theta[1] - current[1]) > d_thresh
    \/ Abs(new_odom_xy_theta[2] - current[2]) > d_thresh
    \/ Abs(new_odom_xy_theta[3] - current[3]) > a_thresh

\* an update cycle that estimates the pose from the resampled cloud
UpdateCycle_estimate_last(e, msg, draws) ==
    Then(Then(Then(Then(update_particles_with_odom(e, draws.motion),
                        LAMBDA x : update_particles_with_laser(x, msg)),
                   LAMBDA x : resample_particles(x, draws.resample)),
              update_robot_pose),
         LAMBDA x : fix_map_to_odom_transform(x, msg.tf_odom))

\* lines 373-382: the branch of a scan that has moved far enough
UpdateCycle(e, msg, draws) ==
    Then(Then(Then(Then(update_particles_with_odom(e, draws.motion),
                        LAMBDA x : update_particles_with_laser(x, msg)),
                   update_robot_pose),
              LAMBDA x : resample_particles(x, draws.resample)),
         LAMBDA x : fix_map_to_odom_transform(x, msg.tf_odom))

\* lines 364-368: the branch of a scan that finds no particle cloud
FirstScan(e, msg, draws) ==
    Then(Then(initialize_particle_cloud(e, None, draws.init),
              LAMBDA x : [x EXCEPT !.current_odom_xy_theta = x.odom_pose]),
         LAMBDA x : fix_map_to_odom_transform(x, msg.tf_odom))

\* a handler that publishes the cloud only when it has changed it
scan_received_publish_in_cycle(e, msg, draws) ==
    IF ~e.initialized THEN e
    ELSE IF ~msg.tf_laser THEN e
    ELSE IF msg.tf_odom = None THEN e
    ELSE LET e1 == [e EXCEPT !.odom_pose = msg.tf_odom]
             new_odom_xy_theta == msg.tf_odom
         IN IF e.particle_cloud = <<>>
            THEN Then(FirstScan(e1, msg, draws), publish_particles)
            ELSE IF e.current_odom_xy_theta = <<>>
            THEN [e1 EXCEPT !.exc = "IndexError"]
            ELSE IF OverThreshold(new_odom_xy_theta, e.current_odom_xy_theta)
            THEN Then(UpdateCycle(e1, msg, draws), publish_particles)
            ELSE e1

\* msg.tf_laser: canTransform(base_frame, msg.header.frame_id, stamp)
\* msg.tf_odom:  the pose of base_link in odom at the stamp, None when
\*               canTransform(base_frame, odom_frame, stamp) is false
\* msg.ranges:   the readings by bearing in degrees
scan_received(e, msg, draws) ==
    IF ~e.initialized THEN e
    ELSE IF ~msg.tf_laser THEN e
    ELSE IF msg.tf_odom = None THEN e
    ELSE LET e1 == [e EXCEPT !.odom_pose = msg.tf_odom]
             new_odom_xy_theta == msg.tf_odom
         IN Then(IF e.particle_cloud = <<>>
                 THEN FirstScan(e1, msg, draws)
                 ELSE IF e.current_odom_xy_theta = <<>>
                 THEN [e1 EXCEPT !.exc = "IndexError"]
                 ELSE IF OverThreshold(new_odom_xy_theta, e.current_odom_xy_theta)
                 THEN UpdateCycle(e1, msg, draws)
                 ELSE e1,
                 publish_particles)

\* msg.pose: the pose of the override; msg.tf_odom as for a scan
update_initial_pose(e, msg, draws) ==
    LET xy_theta == msg.pose
    IN Then(initialize_particle_cloud(e, xy_theta, draws.init),
            LAMBDA x : fix_map_to_odom_transform(x, msg.tf_odom))

broadcast_last_transform(e) ==
    IF e.transform = None THEN e
    ELSE [e EXCEPT !.sent = Append(@, e.transform)]

(***************************************************************************)
(* Garbage collection: the objects the cloud refers to, renumbered in the  *)
(* order of the cloud.  Two entries that refer to one object still do.     *)
(***************************************************************************)
RECURSIVE FirstUse(_, _)
FirstUse(cloud, i) ==
    IF i = 0 THEN <<>>
    ELSE LET before == FirstUse(cloud, i - 1)
         IN IF \E j \in 1 .. Len(before) : before[j] = cloud[i]
            THEN before ELSE Append(before, cloud[i])

Collect(heap, cloud) ==
    LET live == FirstUse(cloud, Len(cloud))
        new(r) == CHOOSE j \in 1 .. Len(live) : live[j] = r
    IN [heap |-> [j \in 1 .. Len(live) |-> heap[live[j]]],
        particle_cloud |-> [i \in 1 .. Len(cloud) |-> new(cloud[i])]]

(***************************************************************************)
(* The environment: what the transform provider, the scanner, the pose     *)
(* override and the random number generator can deliver                    *)
(***************************************************************************)
\* poses of base_link in odom
OdomPoses == {<<0, 0, 0>>, <<10, 0, 0>>, <<15, 0, 0>>, <<0, 15, 20>>, <<0, 0, 40>>}

\* scans: every reading 1 m; the reading at 180 degrees 2.5 m
Scan1 == [b \in {0, 90, 180, 270} |-> 100]

Scan2 == [b \in {0, 90, 180, 270} |-> IF b = 180 THEN 250 ELSE 100]

Scans == {Scan1, Scan2}

\* scan messages: with the transforms, and without one of them
ScanMsgs == [tf_laser : {TRUE}, tf_odom : OdomPoses, ranges : Scans]
            \cup [tf_laser : {FALSE}, tf_odom : {<<0, 0, 0>>}, ranges : {Scan1}]
            \cup [tf_laser : {TRUE}, tf_odom : {None}, ranges : {Scan1}]

PoseMsgs == [pose : {<<150, 0, 120>>}, tf_odom : {<<0, 0, 0>>, None}]

\* random_sample(): 0 and 1/2
U0 == <<0, 1>>

UH == <<1, 2>>

\* the particles that are given draws (interleaved initializations can
\* leave more than NParticles of them in the list)
Index == 1 .. 2 * NParticles

\* the draws of initialize_particle_cloud: three per particle
InitDraws == {[i \in Index |-> IF i % 2 = 1 THEN <<UH, UH, UH>> ELSE <<U0, U0, U0>>]}

\* the draws of initialize_particle_cloud for an initial pose
PoseDraws == {[i \in Index |-> IF i % 2 = 1 THEN <<UH, UH, UH>> ELSE <<U0, U0, UH>>]}

\* the draws of an update cycle: four per particle in
\* update_particles_with_odom, one per sample in draw_random_sample
CycleDraws1 == [motion |-> [i \in Index |-> <<U0, U0, U0, U0>>],
                resample |-> [i \in Index |-> IF i % 2 = 1 THEN UH ELSE U0]]

CycleDraws2 == [motion |-> [i \in Index |-> IF i % 2 = 1 THEN <<UH, U0, UH, U0>>
                                                       ELSE <<U0, UH, U0, UH>>],
                resample |-> [i \in Index |-> UH]]

\* the update cycles explored: the first scan with the first draws, the
\* second scan with the second draws
CycleDraws(msg) == IF msg.ranges = Scan1 THEN CycleDraws1 ELSE CycleDraws2

NoDraws == [init |-> <<>>, motion |-> <<>>, resample |-> <<>>]

(***************************************************************************)
(* State                                                                   *)
(***************************************************************************)
VARIABLES
    initialized,            \* self.initialized
    heap,                   \* the Particle objects
    particle_cloud,         \* self.particle_cloud
    current_odom_xy_theta,  \* self.current_odom_xy_theta
    odom_pose,              \* self.odom_pose
    robot_pose,             \* self.robot_pose
    transform,              \* self.translation, self.rotation
    ev,                     \* history: the last callback that ran
    n_updates,              \* history: update cycles run so far
    pc,                     \* SpecConc: where each callback thread is
    loc,                    \* SpecConc: the local variables of each thread
    observed,               \* SpecConc, history: the cloud a scan step found
    n_started               \* SpecConc, history: callbacks started, by thread

self_vars == <<initialized, heap, particle_cloud, current_odom_xy_theta,
               odom_pose, robot_pose, transform>>

conc_vars == <<pc, loc, observed, n_started>>

vars == <<initialized, heap, particle_cloud, current_odom_xy_theta,
          odom_pose, robot_pose, transform, ev, n_updates,
          pc, loc, observed, n_started>>

\* the callback threads of rospy: one for the scan topic, one for initialpose
Threads == {"scan", "pose"}

Idle == "idle"

NoLocals == [tf_odom |-> None, ranges |-> <<>>, seed |-> None, i |-> 0]

\* a callback starts on the state of the object
Begin ==
    [initialized |-> initialized, heap |-> heap, particle_cloud |-> particle_cloud,
     current_odom_xy_theta |-> current_odom_xy_theta, odom_pose |-> odom_pose,
     robot_pose |-> robot_pose, transform |-> transform,
     exc |-> NoExc, trace |-> <<>>, published |-> <<>>, sent |-> <<>>,
     laser_log |-> <<>>, pose_in |-> <<>>, motion_in |-> <<>>, motion_out |-> <<>>,
     motion_draws |-> <<>>,
     resample_in |-> [refs |-> <<>>, values |-> <<>>], resample_new |-> <<>>,
     norm_log |-> <<>>]

\* the object keeps what an execution assigned
Store(e) ==
    \E c \in {Collect(e.heap, e.particle_cloud)} :
       /\ initialized' = e.initialized
       /\ heap' = c.heap
       /\ particle_cloud' = c.particle_cloud
       /\ current_odom_xy_theta' = e.current_odom_xy_theta
       /\ odom_pose' = e.odom_pose
       /\ robot_pose' = e.robot_pose
       /\ transform' = e.transform

\* a callback that runs without interleaving ends
Finish(e, op, tf) ==
       /\ Store(e)
       /\ UNCHANGED conc_vars
       /\ ev' = [op |-> op, tf |-> tf, exc |-> e.exc, trace |-> e.trace,
                 had_cloud |-> particle_cloud # <<>>,
                 gate_ref |-> current_odom_xy_theta,
                 published |-> e.published, sent |-> e.sent,
                 laser_log |-> e.laser_log, pose_in |-> e.pose_in,
                 motion_in |-> e.motion_in, motion_out |-> e.motion_out,
                 motion_draws |-> e.motion_draws,
                 resample_in |-> e.resample_in, resample_new |-> e.resample_new,
                 norm_log |-> e.norm_log]
       /\ n_updates' = n_updates + (IF \E i \in 1 .. Len(e.trace) : e.trace[i] = "laser"
                                    THEN 1 ELSE 0)

\* the state after ParticleFilter.__init__
Init ==
    /\ initialized = TRUE
    /\ heap = <<>>
    /\ particle_cloud = <<>>
    /\ current_odom_xy_theta = <<>>
    /\ odom_pose = None
    /\ robot_pose = None
    /\ transform = None
    /\ ev = [op |-> "construct", tf |-> TRUE, exc |-> NoExc, trace |-> <<>>,
             had_cloud |-> FALSE, gate_ref |-> <<>>,
             published |-> <<>>, sent |-> <<>>, laser_log |-> <<>>,
             pose_in |-> <<>>, motion_in |-> <<>>, motion_out |-> <<>>,
             motion_draws |-> <<>>,
             resample_in |-> [refs |-> <<>>, values |-> <<>>], resample_new |-> <<>>,
             norm_log |-> <<>>]
    /\ n_updates = 0
    /\ pc = [t \in Threads |-> Idle]
    /\ loc = [t \in Threads |-> NoLocals]
    /\ observed = [step |-> "none", len |-> 0, rebuilding |-> FALSE]
    /\ n_started = [t \in Threads |-> 0]

\* whether a scan finds its transforms, no cloud, a displacement over the gate
TfOk(msg) == msg.tf_laser /\ msg.tf_odom # None

WillInit(msg) == TfOk(msg) /\ particle_cloud = <<>>

WillUpdate(msg) ==
    /\ TfOk(msg)
    /\ particle_cloud # <<>>
    /\ current_odom_xy_theta # <<>>
    /\ OverThreshold(msg.tf_odom, current_odom_xy_theta)

\* a scan arrives (the readings are read by an update cycle only)
ScanReceived ==
    \E msg \in ScanMsgs :
        /\ WillUpdate(msg) => n_updates < MaxUpdates
        /\ WillUpdate(msg) \/ msg.ranges = Scan1
        /\ \E di \in (IF WillInit(msg) THEN InitDraws ELSE {<<>>}),
              dc \in {IF WillUpdate(msg) THEN CycleDraws(msg)
                                         ELSE [motion |-> <<>>, resample |-> <<>>]} :
              \E e \in {scan_received(Begin, msg, [init |-> di, motion |-> dc.motion,
                                                    resample |-> dc.resample])} :
                  Finish(e, "scan", TfOk(msg))

\* an initial pose arrives
UpdateInitialPose ==
    \E msg \in PoseMsgs, di \in PoseDraws :
        \E e \in {update_initial_pose(Begin, msg, [NoDraws EXCEPT !.init = di])} :
            Finish(e, "initialpose", msg.tf_odom # None)

\* a turn of the main loop
BroadcastLastTransform ==
    \E e \in {broadcast_last_transform(Begin)} : Finish(e, "tick", TRUE)

Next == ScanReceived \/ UpdateInitialPose \/ BroadcastLastTransform

Spec == Init /\ [][Next]_vars

(***************************************************************************)
(* The callbacks as rospy runs them: the scan topic and the initialpose    *)
(* topic each have a thread of their own, and the node takes no lock.  A   *)
(* thread can be preempted between any two statements; the steps below are *)
(* the calls of the callbacks, and the statements of                       *)
(* initialize_particle_cloud.                                              *)
(***************************************************************************)
\* thread t goes on to label next, or ends if its step raised
Goto(t, e, next) ==
    pc' = [pc EXCEPT ![t] = IF e.exc # NoExc THEN Idle ELSE next]

\* what a step of the scan thread finds in self.particle_cloud
Observe(step) ==
    observed' = [step |-> step, len |-> Len(particle_cloud),
                 rebuilding |-> pc["pose"] = "append"]

\* lines 336-361: a scan arrives, the handler returns or keeps the odometry
ConcScanBegin ==
    /\ pc["scan"] = Idle
    /\ n_started["scan"] < MaxScans
    /\ n_started' = [n_started EXCEPT !["scan"] = @ + 1]
    /\ \E msg \in {m \in ScanMsgs : m.ranges = Scan1} :
          IF initialized /\ TfOk(msg)
          THEN /\ Store([Begin EXCEPT !.odom_pose = msg.tf_odom])
               /\ pc' = [pc EXCEPT !["scan"] = "check"]
               /\ loc' = [loc EXCEPT !["scan"] = [NoLocals EXCEPT !.tf_odom = msg.tf_odom,
                                                                 !.ranges = msg.ranges]]
               /\ UNCHANGED <<ev, n_updates, observed>>
          ELSE UNCHANGED <<self_vars, ev, n_updates, pc, loc, observed>>

\* lines 362, 369-371: the branch the handler takes
ConcScanCheck ==
    /\ pc["scan"] = "check"
    /\ Observe("check")
    /\ IF particle_cloud = <<>>
       THEN pc' = [pc EXCEPT !["scan"] = "clear"]
       ELSE IF current_odom_xy_theta = <<>>
       THEN pc' = [pc EXCEPT !["scan"] = Idle]
       ELSE IF OverThreshold(loc["scan"].tf_odom, current_odom_xy_theta)
       THEN pc' = [pc EXCEPT !["scan"] = "odom"]
       ELSE pc' = [pc EXCEPT !["scan"] = "publish"]
    /\ UNCHANGED <<self_vars, ev, n_updates, loc, n_started>>

\* line 285: an initial pose arrives
ConcPoseBegin ==
    /\ pc["pose"] = Idle
    /\ n_started["pose"] < MaxOverrides
    /\ \E msg \in PoseMsgs :
          loc' = [loc EXCEPT !["pose"] = [NoLocals EXCEPT !.tf_odom = msg.tf_odom,
                                                         !.seed = msg.pose]]
    /\ pc' = [pc EXCEPT !["pose"] = "clear"]
    /\ n_started' = [n_started EXCEPT !["pose"] = @ + 1]
    /\ UNCHANGED <<self_vars, ev, n_updates, observed>>

\* lines 300-304: the seed is chosen and the list is emptied
ConcInitClear(t) ==
    /\ pc[t] = "clear"
    /\ Store(ClearCloud(Begin))
    /\ loc' = [loc EXCEPT ![t].i = 0,
                          ![t].seed = IF t = "scan" THEN odom_pose ELSE @]
    /\ pc' = [pc EXCEPT ![t] = "append"]
    /\ UNCHANGED <<ev, n_updates, observed, n_started>>

\* lines 305-309: one iteration of the loop
ConcInitAppend(t) ==
    /\ pc[t] = "append"
    /\ \E d \in (IF t = "scan" THEN InitDraws ELSE PoseDraws) :
          Store(AppendParticle(Begin, loc[t].seed, d[loc[t].i + 1]))
    /\ loc' = [loc EXCEPT ![t].i = @ + 1]
    /\ pc' = [pc EXCEPT ![t] = IF loc[t].i + 1 = NParticles THEN "norm" ELSE "append"]
    /\ UNCHANGED <<ev, n_updates, observed, n_started>>

\* lines 312-313, and line 366 for the scan thread
ConcInitFinish(t) ==
    /\ pc[t] \in {"norm", "init_pose", "record"}
    /\ \E e \in {IF pc[t] = "norm" THEN normalize_particles(Begin)
                  ELSE IF pc[t] = "init_pose" THEN update_robot_pose(Begin)
                  ELSE [Begin EXCEPT !.current_odom_xy_theta = loc[t].tf_odom]} :
          /\ Store(e)
          /\ Goto(t, e, IF pc[t] = "norm" THEN "init_pose"
                        ELSE IF pc[t] = "init_pose" /\ t = "scan" THEN "record"
                        ELSE "fix")
    /\ UNCHANGED <<ev, n_updates, loc, observed, n_started>>

\* lines 373-381: the steps of an update cycle
ConcCycleStep ==
    /\ pc["scan"] \in {"odom", "laser", "estimate", "resample"}
    /\ Observe(pc["scan"])
    /\ \E e \in {IF pc["scan"] = "odom"
                  THEN update_particles_with_odom(Begin, CycleDraws(loc["scan"]).motion)
                  ELSE IF pc["scan"] = "laser"
                  THEN update_particles_with_laser(Begin, loc["scan"])
                  ELSE IF pc["scan"] = "estimate"
                  THEN update_robot_pose(Begin)
                  ELSE resample_particles(Begin, CycleDraws(loc["scan"]).resample)} :
          /\ Store(e)
          /\ Goto("scan", e, IF pc["scan"] = "odom" THEN "laser"
                             ELSE IF pc["scan"] = "laser" THEN "estimate"
                             ELSE IF pc["scan"] = "estimate" THEN "resample"
                             ELSE "fix")
    /\ UNCHANGED <<ev, n_updates, loc, n_started>>

\* lines 368, 382 and 287
ConcFix(t) ==
    /\ pc[t] = "fix"
    /\ \E e \in {fix_map_to_odom_transform(Begin, loc[t].tf_odom)} :
          /\ Store(e)
          /\ Goto(t, e, IF t = "scan" THEN "publish" ELSE Idle)
    /\ UNCHANGED <<ev, n_updates, loc, observed, n_started>>

\* line 384
ConcPublish ==
    /\ pc["scan"] = "publish"
    /\ Observe("publish")
    /\ pc' = [pc EXCEPT !["scan"] = Idle]
    /\ UNCHANGED <<self_vars, ev, n_updates, loc, n_started>>

NextConc ==
    \/ ConcScanBegin
    \/ ConcScanCheck
    \/ ConcPoseBegin
    \/ \E t \in Threads : ConcInitClear(t)
    \/ \E t \in Threads : ConcInitAppend(t)
    \/ \E t \in Threads : ConcInitFinish(t)
    \/ ConcCycleStep
    \/ \E t \in Threads : ConcFix(t)
    \/ ConcPublish

SpecConc == Init /\ [][NextConc]_vars

(***************************************************************************)
(* Properties                                                              *)
(***************************************************************************)
InTrace(name) == \E i \in 1 .. Len(ev.trace) : ev.trace[i] = name

\* the last callback was a scan that found its transforms, a cloud and a
\* recorded odometry pose
GatedScan == ev.op = "scan" /\ ev.tf /\ ev.had_cloud /\ ev.gate_ref # <<>>

\* the displacement of the odometry pose new from the pose ref is within the
\* thresholds on every component
Within(new, ref) ==
    /\ Abs(new[1] - ref[1]) <= d_thresh
    /\ Abs(new[2] - ref[2]) <= d_thresh
    /\ Abs(new[3] - ref[3]) <= a_thresh

\* position and heading of the particles of a list
Poses(ps) == [i \in 1 .. Len(ps) |-> <<ps[i].x, ps[i].y, ps[i].theta>>]

\* C1: a scan that finds a cloud, its transforms and a recorded odometry
\* pose runs the update cycle if and only if the new odometry pose differs
\* from the recorded one by more than d_thresh in x or in y or by more than
\* a_thresh in heading (strictly); the recorded pose becomes the new pose
\* when the cycle runs and stays what it was when it does not, so that
\* displacements under the thresholds add up over scans.
C1_UpdateGate ==
    GatedScan =>
        /\ InTrace("laser") <=> ~Within(odom_pose, ev.gate_ref)
        /\ InTrace("odom") <=> InTrace("laser")
        /\ current_odom_xy_theta = IF InTrace("laser") THEN odom_pose ELSE ev.gate_ref

\* a cycle run for the displacement (0.15, 0, 0) from the recorded pose
C1_CycleAfterFifteen ==
    /\ GatedScan
    /\ InTrace("laser")
    /\ ev.gate_ref = <<0, 0, 0>>
    /\ odom_pose = <<15, 0, 0>>

\* C2: once there is a cloud it has NParticles entries after every callback,
\* and a resampling takes NParticles entries and returns NParticles entries.
C2_CloudSize ==
    /\ particle_cloud # <<>> => Len(particle_cloud) = NParticles
    /\ InTrace("resample") =>
          /\ Len(ev.resample_in.refs) = NParticles
          /\ Len(ev.resample_new) = NParticles

\* a second resampling has run
C2_ResampledTwice ==
    /\ InTrace("resample")
    /\ n_updates = 2
    /\ Len(particle_cloud) = NParticles

\* C3: after a sensor update a particle with an endpoint outside the mapped
\* region has weight 0, whichever bearing was the first outside, and no
\* bearing after that one was evaluated for it.
C3_OutOfMapWeightZero ==
    \A i \in 1 .. Len(ev.laser_log) :
        ev.laser_log[i].nan =>
            /\ ev.laser_log[i].w = FZero
            /\ ev.laser_log[i].evaluated < Len(Bearings)

\* C4: every entry of a resampled cloud has the position and heading of an
\* entry of the cloud that was resampled; the entries are new objects, each
\* its own and none of them an object of the old cloud; and a motion update
\* moves every entry as if it were alone: from its own pose, by its own draws.
C4_ResampleCopies ==
    /\ InTrace("resample") =>
          /\ \A j \in 1 .. Len(particle_cloud) :
                \E i \in 1 .. Len(ev.resample_in.values) :
                    Poses(Values(heap, particle_cloud))[j] = Poses(ev.resample_in.values)[i]
          /\ \A j, k \in 1 .. Len(particle_cloud) :
                j # k => particle_cloud[j] # particle_cloud[k]
          /\ \A j \in 1 .. Len(ev.resample_new) :
                /\ \A i \in 1 .. Len(ev.resample_in.refs) :
                      ev.resample_new[j] # ev.resample_in.refs[i]
                /\ \A k \in 1 .. Len(ev.resample_new) :
                      j # k => ev.resample_new[j] # ev.resample_new[k]
    /\ InTrace("odom") /\ ev.gate_ref # <<>> =>
          \A i \in 1 .. Len(ev.motion_in) :
              ev.motion_out[i] =
                  MoveParticle(ev.motion_in[i],
                               <<odom_pose[1] - ev.gate_ref[1],
                                 odom_pose[2] - ev.gate_ref[2],
                                 odom_pose[3] - ev.gate_ref[3]>>,
                               ev.gate_ref, ev.motion_draws[i])

\* two copies of one particle, made by an earlier resampling, that the motion
\* update moved apart
C4_CopiesMovedApart ==
    /\ InTrace("odom")
    /\ InTrace("resample")
    /\ Len(ev.motion_in) >= 2
    /\ ev.motion_in[1] = ev.motion_in[2]
    /\ ev.motion_out[1] # ev.motion_out[2]

\* a scan of the next step that finds a cloud, its transforms and a recorded
\* odometry pose no further than the thresholds from the new one
UnderThresholdScan ==
    /\ ev'.op = "scan"
    /\ ev'.tf
    /\ particle_cloud # <<>>
    /\ current_odom_xy_theta # <<>>
    /\ Within(odom_pose', current_odom_xy_theta)

C6_SkippedWithoutTransform ==
    [][(ev'.op \in {"scan", "initialpose"} /\ ~ev'.tf) =>
          /\ ev'.exc = NoExc
          /\ UNCHANGED <<heap, particle_cloud, current_odom_xy_theta,
                         robot_pose, transform>>]_vars

\* C7: no step of the scan handler finds fewer than NParticles entries in
\* the cloud while an initial pose is rebuilding it.  Stated for the steps
\* that follow the empty-cloud check, which a scan reaches only after it has
\* found a cloud: motion update, sensor update, normalization and pose
\* estimation, resampling, publication.
C7_NoPartialCloud ==
    ~(/\ observed.rebuilding
      /\ observed.len < NParticles
      /\ observed.step \in {"odom", "laser", "estimate", "resample", "publish"})

\* C8: a scan that finds its transforms and no recorded odometry pose
\* initializes the cloud and records the odometry pose, without running the
\* estimation cycle and without failing.
C8_FirstScanInitializes ==
    (ev.op = "scan" /\ ev.tf /\ ev.gate_ref = <<>>) =>
        /\ ev.exc = NoExc
        /\ InTrace("init")
        /\ ~InTrace("laser")
        /\ current_odom_xy_theta = odom_pose

\* C9: a scan over the thresholds runs motion update, sensor update,
\* normalization, pose estimation, (normalization again and) resampling,
\* transform correction and publication, in this order and to the end; the
\* pose estimate is the mean of the reweighted, normalized cloud that is then
\* resampled, the stored offset is computed from that estimate, and the
\* cloud published is the resampled one.
C9_StepOrder ==
    InTrace("laser") =>
        /\ ev.exc = NoExc
        /\ ev.trace = <<"odom", "laser", "normalize", "pose",
                        "normalize", "resample", "fix", "publish">>
        /\ Len(ev.pose_in) = Len(ev.laser_log)
        /\ \A i \in 1 .. Len(ev.pose_in) :
              ev.pose_in[i].w =
                  FDiv(ev.laser_log[i].w,
                       FSum([j \in 1 .. Len(ev.laser_log) |-> ev.laser_log[j].w]))
        /\ ev.pose_in = ev.resample_in.values
        /\ robot_pose = as_pose(MeanPose(ev.pose_in))
        /\ transform = MapToOdom(robot_pose, odom_pose)
        /\ ev.published = <<[i \in 1 .. Len(particle_cloud) |->
                                 as_pose(heap[particle_cloud[i]])]>>

\* a cycle whose resampling changed the poses of the cloud that the pose
\* estimate was computed from
C9_EstimateBeforeResample ==
    /\ InTrace("resample")
    /\ Poses(Values(heap, particle_cloud)) # Poses(ev.pose_in)
    /\ as_pose(MeanPose(ev.pose_in)) = robot_pose

\* C10: within a sensor update, among the particles whose endpoints are all
\* in the map, a larger accumulated error never gives a larger weight, and
\* no weight exceeds the weight 1.0 of a particle whose error is zero.
C10_ZeroErrorMaximal ==
    \A i, j \in 1 .. Len(ev.laser_log) :
        (~ev.laser_log[i].nan /\ ~ev.laser_log[j].nan) =>
            /\ ev.laser_log[i].sum <= ev.laser_log[j].sum
                  => FLeq(ev.laser_log[j].w, ev.laser_log[i].w)
            /\ ev.laser_log[i].sum = 0 => ev.laser_log[i].w = FOne
            /\ FLeq(ev.laser_log[i].w, FOne)

C12_ThreeNoiseScalars ==
    InTrace("odom") /\ ev.gate_ref # <<>> =>
        \A i \in 1 .. Len(ev.motion_in) :
            /\ \A k \in 1 .. Len(ev.motion_draws[i]) :
                  /\ NoiseFactor(ev.motion_draws[i][k]) >= 20 - odom_noise \div 2
                  /\ NoiseFactor(ev.motion_draws[i][k]) <= 20 + odom_noise \div 2
            /\ ev.motion_out[i] =
                  MoveParticle(ev.motion_in[i],
                               <<odom_pose[1] - ev.gate_ref[1],
                                 odom_pose[2] - ev.gate_ref[2],
                                 odom_pose[3] - ev.gate_ref[3]>>,
                               ev.gate_ref,
                               <<ev.motion_draws[i][1], ev.motion_draws[i][2],
                                 ev.motion_draws[i][2], ev.motion_draws[i][4]>>)

====
